---------------------------- MODULE Spec2Model ----------------------------
(***************************************************************************)
(* Mussel-spread simulation of LRitzdorf/ScienceFair2019.                  *)
(*                                                                         *)
(* The module models two programs of the repository as state machines,     *)
(* one run of one of them per behaviour (the variable prog says which):    *)
(*  - the QGIS processing algorithm                                        *)
(*    MusselSpreadSimulationAlgorithm.processAlgorithm                     *)
(*    (src/RouteHeatmap.py): the route-length loops, the gravity model,    *)
(*    the Monte Carlo loop and the output loops;                           *)
(*  - the command-line program src/musselSim_original.py: makeSites, the   *)
(*    gravity model, the Monte Carlo loop with its intra-year iterations.  *)
(* Each loop iteration is one action.  Line numbers without a file name    *)
(* are lines of src/RouteHeatmap.py.                                       *)
(*                                                                         *)
(* Conventions.                                                            *)
(*  - Python floats are modelled as exact rationals <<n, d>> in lowest     *)
(*    terms with d > 0.  The input sets below hold only values for which   *)
(*    the double-precision evaluation of the gravity model agrees with     *)
(*    the exact one (costs that are powers of two, weights up to 2).       *)
(*    The non-finite floats numpy produces where it divides by zero are    *)
(*    <<1, 0>> (inf), <<-1, 0>> (-inf) and <<0, 0>> (nan).                 *)
(*  - Python's None is the empty tuple <<>>, a present value v is <<v>>.   *)
(*  - Python indices start at 0, the sequences here at 1; the loop         *)
(*    counters MCLoop and year keep the source's 0-based values because    *)
(*    the source computes with them.                                       *)
(*  - A random draw is a nondeterministic choice over the outcomes that    *)
(*    have non-zero probability.                                           *)
(***************************************************************************)
EXTENDS Integers, Sequences, FiniteSets, TLC

(***************************************************************************)
(* Exact rational arithmetic standing for Python/numpy float arithmetic.   *)
(***************************************************************************)
RECURSIVE GCD(_, _)
GCD(a, b) == IF b = 0 THEN a ELSE GCD(b, a % b)

Abs(n) == IF n < 0 THEN -n ELSE n

\* n / d as numpy.float64 computes it: x / 0 is inf for x > 0, -inf for
\* x < 0 and nan for x = 0 (a RuntimeWarning, no exception)
Rat(n, d) ==
    LET s == IF d < 0 THEN -1 ELSE 1
        g == IF n = 0 /\ d = 0 THEN 1 ELSE GCD(Abs(n), Abs(d))
    IN  <<(s * n) \div g, (s * d) \div g>>

\* neither inf nor nan
Finite(x) == x[2] # 0

Num(k) == <<k, 1>>

\* inf + inf = inf; inf - inf and every sum with nan are nan
RAdd(x, y) ==
    IF ~Finite(x) /\ ~Finite(y)
    THEN IF x = y THEN x ELSE <<0, 0>>
    ELSE Rat(x[1] * y[2] + y[1] * x[2], x[2] * y[2])

RSub(x, y) == Rat(x[1] * y[2] - y[1] * x[2], x[2] * y[2])

RMul(x, y) == Rat(x[1] * y[1], x[2] * y[2])

RDiv(x, y) == Rat(x[1] * y[2], x[2] * y[1])

RLess(x, y) == x[1] * y[2] < y[1] * x[2]

RLeq(x, y) == x[1] * y[2] <= y[1] * x[2]

\* int(x) for x >= 0, and the conversion numpy applies when a float is stored
\* in an array of dtype=int: truncation toward zero.
Trunc(x) == IF x[1] >= 0 THEN x[1] \div x[2] ELSE -((-x[1]) \div x[2])

\* numpy.ndarray.round(): to the nearest integer, a tie to the even one.
Round(x) ==
    LET q == x[1] \div x[2]
        r == x[1] % x[2]
    IN  IF 2 * r < x[2] THEN q
        ELSE IF 2 * r > x[2] THEN q + 1
        ELSE IF q % 2 = 0 THEN q ELSE q + 1

None == <<>>

Some(v) == <<v>>

RECURSIVE SumTo(_, _)
\* f(1) + ... + f(n)
SumTo(f, n) == IF n = 0 THEN 0 ELSE f[n] + SumTo(f, n - 1)

RECURSIVE RSumTo(_, _)
RSumTo(f, n) == IF n = 0 THEN Num(0) ELSE RAdd(f[n], RSumTo(f, n - 1))

(***************************************************************************)
(* The habitability function (src/RouteHeatmap.py 378-420).                *)
(***************************************************************************)
CaFactor_inverse(calcium, lowCalc) ==
    IF RLeq(Num(0), calcium) /\ RLess(calcium, lowCalc) THEN Some(Num(0))
    ELSE IF RLeq(lowCalc, calcium)
         THEN Some(RDiv(Num(1), RAdd(RSub(calcium, lowCalc), Num(1))))
         ELSE None

\* the calcium branch of lines 388-391 and 407-410; <<>> for the else branch
CaFactor(calcium, lowCalc) ==
    IF RLeq(Num(0), calcium) /\ RLess(calcium, lowCalc) THEN Some(Num(0))
    ELSE IF RLeq(lowCalc, calcium)
         THEN Some(RAdd(RDiv(Num(-1), RAdd(RSub(calcium, lowCalc), Num(1))),
                        Num(1)))
         ELSE None

\* the pH branch of lines 397-400 and 414-417
pHFactor(pH, lowpH) ==
    IF RLeq(Num(0), pH) /\ RLess(pH, lowpH) THEN Some(Num(0))
    ELSE IF RLeq(lowpH, pH)
         THEN Some(RAdd(RDiv(Num(-1),
                             RAdd(RMul(Num(10), RSub(pH, lowpH)), Num(1))),
                        Num(1)))
         ELSE None

habitability_barren(pH, calcium, lowpH, lowCalc) ==
    IF pH = None THEN Some(Num(0)) ELSE pHFactor(pH[1], lowpH)

habitability(pH, calcium, lowpH, lowCalc) ==
    IF pH = None /\ calcium = None THEN None
    ELSE IF pH = None THEN CaFactor(calcium[1], lowCalc)
    ELSE IF calcium = None THEN pHFactor(pH[1], lowpH)
    ELSE LET ca == CaFactor(calcium[1], lowCalc)
             ph == pHFactor(pH[1], lowpH)
         IN  Some(RMul(IF ph = None THEN Num(1) ELSE ph[1],
                       IF ca = None THEN Num(1) ELSE ca[1]))

(***************************************************************************)
(* State of one run of processAlgorithm.                                   *)
(***************************************************************************)
VARIABLES
    prog,           \* the program that runs: "RouteHeatmap" or "musselSim"
    inFile,         \* musselSim: the data lines of the SITES file
    results,        \* musselSim: results[MCLoop][year][site]
    iteration,      \* musselSim: the counter of the intra-year loop
    params,         \* the parameters (RouteHeatmap.py 436-473; the
                    \* prompts of musselSim_original.py 386-420)
    counties,       \* County objects: [boats]
    states,         \* State objects: [boats, infested]
    sites,          \* Site objects, in the order of the pickled list
    routeMatrix,    \* distance (km) county i -> site j: the length of the
                    \* pickled route, or (musselSim) distance_in_km of the
                    \* coordinates
    stRouteMatrix,  \* length (km) of the pickled route state i -> site j
    c, cs,          \* cost arrays
    A, As, T, Ts, P, t, ts, Q, O, Os, W,
    avgInfest,      \* running average, [year][site]
    infestedTrials, \* history: infestedTrials[year][site] is the number of
                    \* completed Monte Carlo loops that left the site
                    \* infested after that year (RouteHeatmap.py keeps no
                    \* such tensor, only the running average)
    MCLoop, year, i, j,
    boatBound,      \* whether the local name `boat` is bound (line 715)
    canceled,       \* feedback.isCanceled()
    routeSink,      \* the features added to the output sink
    result,         \* what processAlgorithm returned
    pc,
    runs,           \* how many times the program is run on the inputs
    run,            \* the number of the current run
    draws,          \* history: the outcomes of the random draws of the
                    \* first run, in their order; the second run takes
                    \* them from the head
    firstRun        \* history: the statuses [year][site] the first run
                    \* recorded

vars == <<prog, inFile, results, iteration, params, counties, states, sites,
          routeMatrix, stRouteMatrix, c, cs,
          A, As, T, Ts, P, t, ts, Q, O, Os, W, avgInfest, infestedTrials,
          MCLoop, year, i, j, boatBound, canceled, routeSink, result, pc,
          runs, run, draws, firstRun>>

inputVars == <<prog, inFile, params, counties, states, routeMatrix,
               stRouteMatrix, runs>>

replayVars == <<run, draws, firstRun>>

\* what only musselSim_original.py writes
origVars == <<results, iteration>>

\* what only RouteHeatmap.py writes
heatmapVars == <<cs, As, Ts, ts, Os, i, boatBound, canceled, routeSink,
                 infestedTrials>>

arrayVars == <<c, cs, A, As, T, Ts, P, t, ts, Q, O, Os, W, avgInfest>>

\* numpy.zeros
zeros1(n) == [k \in 1..n |-> 0]

zeros2(n, m) == [k \in 1..n |-> [l \in 1..m |-> 0]]

zeros4(a, b, n, m) == [k \in 1..a |-> [l \in 1..b |-> zeros2(n, m)]]

\* the distance-decay exponent (line 575)
alpha == 2

RECURSIVE Pow(_, _)
Pow(x, n) == IF n = 0 THEN 1 ELSE x * Pow(x, n - 1)

Mass_zeroCostSkipped(Wv, cv, ii, jj) ==
    IF cv[ii][jj] = 0 THEN Num(0) ELSE Rat(Wv[jj], Pow(cv[ii][jj], alpha))

Mass_unweighted(Wv, cv, ii, jj) == Rat(1, Pow(cv[ii][jj], alpha))

\* W[j] * (c[i][j] ** -alpha); for the cost 0 numpy's 0.0 ** -2 is inf, and
\* the product is inf for W[j] > 0 and nan for W[j] = 0
Mass(Wv, cv, ii, jj) == Rat(Wv[jj], Pow(cv[ii][jj], alpha))

\* the sum the loop of lines 613-614 leaves in A[i] before line 615 inverts it
MassSum(Wv, cv, ii) == RSumTo([jj \in 1..Len(Wv) |-> Mass(Wv, cv, ii, jj)], Len(Wv))

\* lines 612-615 (and 618-621): A[i] = 1 / sum; inf for the sum 0, 0 for the
\* sum inf
Balancing(Wv, cv, ii) == RDiv(Num(1), MassSum(Wv, cv, ii))

\* lines 624-626 (and 629-631, 670-673): A[i] * O[i] * W[j] * c[i][j] ** -alpha
TripsValue(Av, Ov, Wv, cv, ii, jj) ==
    RMul(RMul(Av[ii], Num(Ov[ii])), Mass(Wv, cv, ii, jj))

\* the same, stored in an array of dtype=int
Trips(Av, Ov, Wv, cv, ii, jj) == Trunc(TripsValue(Av, Ov, Wv, cv, ii, jj))

\* the cells of the trip matrix in the order the loops of lines 624-626 fill
\* them
Cells(n, m) == (1..n) \X (1..m)

Before(p, q) == p[1] < q[1] \/ (p[1] = q[1] /\ p[2] < q[2])

\* the cells whose value numpy cannot convert to int: the store of line 626
\* raises ValueError for nan and OverflowError for inf
Unstorable(Av, Ov, Wv, cv, n) ==
    {p \in Cells(n, Len(Wv)) : ~Finite(TripsValue(Av, Ov, Wv, cv, p[1], p[2]))}

\* lines 624-626 (and 629-631): the trip matrix the loops leave, filled up
\* to the first cell whose store raises, whole when none does
TripMatrix(Av, Ov, Wv, cv, n) ==
    LET bad == Unstorable(Av, Ov, Wv, cv, n)
        stored(p) == \A q \in bad : Before(p, q)
    IN  [ii \in 1..n |-> [jj \in 1..Len(Wv) |->
            IF stored(<<ii, jj>>) THEN Trips(Av, Ov, Wv, cv, ii, jj) ELSE 0]]

resetInfested_rated(site) ==
    [site EXCEPT !.infested = site.initInfested,
                 !.habitability = IF site.initInfested THEN Some(Num(1)) ELSE @]

resetInfested_kept(site) == site

resetInfested_cleared(site) == [site EXCEPT !.infested = FALSE]

\* Site.resetInfested (lines 308-309)
resetInfested(site) == [site EXCEPT !.infested = site.initInfested]

infest_unguarded(site) == [site EXCEPT !.infested = TRUE]

\* Site.infest (RouteHeatmap.py 304-306, musselSim_original.py 130-132)
infest(site) ==
    IF RLess(Num(0), site.habitability[1])
    THEN [site EXCEPT !.infested = TRUE]
    ELSE site

NC == Len(counties)

NSt == Len(states)

NS == Len(sites)

isCanceled_never == FALSE

\* feedback.isCanceled() (lines 525, 547, 651, 766, 787)
isCanceled == canceled

Running == pc \notin {"done", "cancelled", "error"}

\* processAlgorithm returns {None: None} at a cancellation check
ReturnCancelled ==
    /\ pc' = "cancelled"
    /\ result' = "none"

\* an uncaught exception ends the run
Raise ==
    /\ pc' = "error"
    /\ result' = "exception"

(***************************************************************************)
(* Lines 164-242: the numeric parameters initAlgorithm declares, with the  *)
(* minValue and maxValue of each.                                          *)
(***************************************************************************)
ParameterRanges ==
    [MCLoops |-> <<Num(1), Num(1000)>>,
     years |-> <<Num(1), Num(50)>>,
     propCleaned |-> <<Num(0), Num(1)>>,
     infProp |-> <<Num(0), Num(1)>>,
     uninfProp |-> <<Num(0), Num(1)>>,
     lowCalc |-> <<Num(0), None>>,
     lowpH |-> <<Num(0), Num(14)>>,
     settleRisk |-> <<Num(0), Num(1)>>,
     tripsPerYear |-> <<Num(1), Num(20)>>]

IntegerParameters == {"MCLoops", "years", "tripsPerYear"}

\* QgsProcessingParameterNumber.checkValueIsAcceptable for the declaration
\* of the parameter: the value is neither below minValue nor above maxValue
checkValueIsAcceptable(name, value) ==
    LET v == IF name \in IntegerParameters THEN Num(value) ELSE value
        range == ParameterRanges[name]
    IN  /\ RLeq(range[1], v)
        /\ range[2] # None => RLeq(v, range[2])

(***************************************************************************)
(* The Processing framework checks the values against the declarations of  *)
(* initAlgorithm (QgsProcessingAlgorithm.checkParameterValues) before it    *)
(* calls processAlgorithm, and does not call it when a value is refused.   *)
(***************************************************************************)
checkParameterValues ==
    /\ prog = "RouteHeatmap"
    /\ pc = "parameters"
    /\ IF \A name \in DOMAIN ParameterRanges :
              checkValueIsAcceptable(name, params[name])
       THEN pc' = "countyRoutes" /\ UNCHANGED result
       ELSE pc' = "error" /\ result' = "invalid parameters"
    /\ UNCHANGED <<inputVars, replayVars, origVars, sites, arrayVars,
                   infestedTrials, MCLoop, year, i, j, boatBound, canceled,
                   routeSink>>

(***************************************************************************)
(* Lines 523-541: the county route loop, one iteration.                    *)
(***************************************************************************)
CountyRouteLengths ==
    /\ prog = "RouteHeatmap"
    /\ pc = "countyRoutes"
    /\ IF i > NC
       THEN /\ pc' = "stateRoutes"
            /\ i' = 1
            /\ UNCHANGED <<c, result>>
       ELSE IF isCanceled
       THEN ReturnCancelled /\ UNCHANGED <<c, i>>
       ELSE IF NC = 1
       THEN \* 100 * i / (len(counties) - 1) divides by zero
            Raise /\ UNCHANGED <<c, i>>
       ELSE /\ c' = [c EXCEPT ![i] = routeMatrix[i]]
            /\ i' = i + 1
            /\ UNCHANGED <<pc, result>>
    /\ UNCHANGED <<inputVars, replayVars, origVars, sites, cs, A, As, T, Ts, P, t, ts, Q, O, Os, W,
                   avgInfest, infestedTrials, MCLoop, year, j, boatBound, canceled, routeSink>>

(***************************************************************************)
(* Lines 545-565: the state route loop, one iteration; leaving the loop    *)
(* deletes the loop variable s, which is unbound when there is no state.   *)
(***************************************************************************)
StateRouteLengths ==
    /\ prog = "RouteHeatmap"
    /\ pc = "stateRoutes"
    /\ IF i > NSt
       THEN /\ IF NSt = 0
               THEN Raise
               ELSE pc' = "model" /\ UNCHANGED result
            /\ UNCHANGED <<cs, i>>
       ELSE IF isCanceled
       THEN ReturnCancelled /\ UNCHANGED <<cs, i>>
       ELSE IF NSt = 1
       THEN Raise /\ UNCHANGED <<cs, i>>
       ELSE /\ cs' = [cs EXCEPT ![i] = stRouteMatrix[i]]
            /\ i' = i + 1
            /\ UNCHANGED <<pc, result>>
    /\ UNCHANGED <<inputVars, replayVars, origVars, sites, c, A, As, T, Ts, P, t, ts, Q, O, Os, W,
                   avgInfest, infestedTrials, MCLoop, year, j, boatBound, canceled, routeSink>>

(***************************************************************************)
(* Lines 575-633: habitability of every site, the arrays, O, Os, W, and    *)
(* the gravity model A, As, T, Ts.  A row whose masses sum to 0 makes      *)
(* A[i] infinite, and storing the infinite or undefined product in the     *)
(* integer array T raises.                                                 *)
(***************************************************************************)
SetUpModel ==
    /\ prog = "RouteHeatmap"
    /\ pc = "model"
    /\ LET hs == [jj \in 1..NS |->
                    [sites[jj] EXCEPT !.habitability =
                        habitability(sites[jj].pH, sites[jj].calcium,
                                     params.lowpH, params.lowCalc)]]
           Ov == [ii \in 1..NC |-> counties[ii].boats]
           Osv == [ii \in 1..NSt |-> states[ii].boats]
           Wv == [jj \in 1..NS |-> sites[jj].attractiveness]
           Av == [ii \in 1..NC |-> Balancing(Wv, c, ii)]
           Asv == [ii \in 1..NSt |-> Balancing(Wv, cs, ii)]
           countyFails == Unstorable(Av, Ov, Wv, c, NC) # {}
           stateFails == Unstorable(Asv, Osv, Wv, cs, NSt) # {}
       IN  /\ sites' = hs
           /\ O' = Ov
           /\ Os' = Osv
           /\ W' = Wv
           /\ P' = zeros1(NC)
           /\ t' = zeros4(params.MCLoops, params.years, NC, NS)
           /\ ts' = zeros4(params.MCLoops, params.years, NSt, NS)
           /\ Q' = zeros2(NC, NS)
           /\ avgInfest' = [y \in 1..params.years |-> [jj \in 1..NS |-> Num(0)]]
           /\ infestedTrials' = zeros2(params.years, NS)
           /\ A' = Av
           /\ As' = Asv
           /\ T' = TripMatrix(Av, Ov, Wv, c, NC)
           /\ Ts' = IF countyFails THEN zeros2(NSt, NS)
                    ELSE TripMatrix(Asv, Osv, Wv, cs, NSt)
           /\ IF countyFails \/ stateFails
              THEN Raise
              ELSE pc' = "trial" /\ UNCHANGED result
    /\ UNCHANGED <<inputVars, replayVars, origVars, c, cs, MCLoop, year, i, j, boatBound, canceled,
                   routeSink>>

(***************************************************************************)
(* Lines 638-644: the head of the Monte Carlo loop.  A further trial       *)
(* resets every site; after the last one, line 715 deletes the names site  *)
(* and boat (boat is unbound when no boat loop ever ran an iteration),     *)
(* and lines 721-758 prepare the output.                                   *)
(***************************************************************************)
BeginTrial ==
    /\ prog = "RouteHeatmap"
    /\ pc = "trial"
    /\ IF MCLoop < params.MCLoops
       THEN /\ sites' = [jj \in 1..NS |-> resetInfested(sites[jj])]
            /\ year' = 0
            /\ pc' = "year"
            /\ UNCHANGED <<i, j, result>>
       ELSE /\ IF boatBound
               THEN pc' = "countyOutput" /\ UNCHANGED result
               ELSE Raise
            /\ i' = 1
            /\ j' = 1
            /\ UNCHANGED <<sites, year>>
    /\ UNCHANGED <<inputVars, replayVars, origVars, arrayVars, infestedTrials, MCLoop, boatBound, canceled,
                   routeSink>>

\* lines 663-667: the boats of county ii that visit an infested site
PotentiallyInfested(ii) ==
    SumTo([jj \in 1..NS |-> IF sites[jj].infested THEN T[ii][jj] ELSE 0], NS)

(***************************************************************************)
(* Lines 647-673: the head of the year loop: the cancellation check, then  *)
(* P and this year's t.  When the years are exhausted the next trial       *)
(* begins.                                                                 *)
(***************************************************************************)
BeginYear ==
    /\ prog = "RouteHeatmap"
    /\ pc = "year"
    /\ IF year >= params.years
       THEN /\ MCLoop' = MCLoop + 1
            /\ pc' = "trial"
            /\ UNCHANGED <<P, t, Q, j, result>>
       ELSE IF isCanceled
       THEN ReturnCancelled /\ UNCHANGED <<P, t, Q, j, MCLoop>>
       ELSE LET Pv == [ii \in 1..NC |-> PotentiallyInfested(ii)]
            IN  /\ P' = Pv
                /\ t' = [t EXCEPT ![MCLoop + 1][year + 1] =
                            [ii \in 1..NC |-> [jj \in 1..NS |->
                                Trips(A, Pv, W, c, ii, jj)]]]
                /\ Q' = zeros2(NC, NS)
                /\ j' = 1
                /\ pc' = "boats"
                /\ UNCHANGED <<MCLoop, result>>
    /\ UNCHANGED <<inputVars, replayVars, origVars, sites, c, cs, A, As, T, Ts, ts, O, Os, W,
                   avgInfest, infestedTrials, year, i, boatBound, canceled, routeSink>>

Drawn_unseeded(kind, outcomes) == outcomes

\* the outcomes a group of draws can have: in a first run every possible
\* outcome; in a second run on the same random stream the outcome the first
\* run had, as long as that outcome is possible
Drawn(kind, outcomes) ==
    IF run = 2 /\ draws # <<>> /\ Head(draws)[1] = kind
               /\ Head(draws)[2] \in outcomes
    THEN {Head(draws)[2]}
    ELSE outcomes

\* the history of the draws after a group of draws had the given outcome
Consumed(kind, outcome) ==
    IF run = 2 THEN (IF draws = <<>> THEN draws ELSE Tail(draws))
    ELSE IF runs = 2 THEN Append(draws, <<kind, outcome>>)
    ELSE draws

\* random.choices([1, 0], [p, 1 - p]) drawn n times: the numbers of draws
\* that can return 1.  The draw returns 1 when random() * total < p, with
\* total = p + (1 - p) = 1: never for p <= 0, always for p >= 1.
Successes(n, p) ==
    IF RLeq(p, Num(0)) THEN {0}
    ELSE IF RLeq(Num(1), p) THEN {n}
    ELSE 0..n

\* lines 687-689: the contamination probability of a boat of a state
StateProp(state) == IF state.infested THEN params.infProp ELSE params.uninfProp

\* line 698: Q = (Q * (1 - propCleaned)).round(), on the whole array
Decontaminate(Qv) ==
    [ii \in 1..NC |-> [jj \in 1..NS |->
        Round(RMul(Num(Qv[ii][jj]), RSub(Num(1), params.propCleaned)))]]

\* lines 684-691: for every state, the number of its boats to site jj whose
\* draw returns 1
StateBoatDraws(jj) ==
    {drawn \in [1..NSt -> 0..SumTo([ii \in 1..NSt |-> Ts[ii][jj]], NSt)] :
        \A ii \in 1..NSt :
            drawn[ii] \in Successes(Ts[ii][jj], StateProp(states[ii]))}

(***************************************************************************)
(* Lines 677-698: one iteration, for site j, of the loop that fills Q:     *)
(* the county boats, the randomly contaminated state boats (stored in row  *)
(* i of Q, which has one row per county), and the decontamination of the   *)
(* whole array.                                                            *)
(***************************************************************************)
YearlyBoats ==
    /\ prog = "RouteHeatmap"
    /\ pc = "boats"
    /\ IF j > NS
       THEN /\ pc' = "settle"
            /\ j' = 1
            /\ UNCHANGED <<ts, Q, boatBound, result, draws>>
       ELSE \E drawn \in Drawn("boats", StateBoatDraws(j)) :
            /\ draws' = Consumed("boats", drawn)
            /\ LET tsv == [ts EXCEPT ![MCLoop + 1][year + 1] =
                             [ii \in 1..NSt |-> [@[ii] EXCEPT ![j] = @ + drawn[ii]]]]
                   Q1 == [ii \in 1..NC |-> [Q[ii] EXCEPT ![j] =
                             @ + (params.tripsPerYear - 1)
                                 * t[MCLoop + 1][year + 1][ii][j]]]
                   Q2 == [ii \in 1..NC |-> [Q1[ii] EXCEPT ![j] =
                             @ + (IF ii <= NSt
                                  THEN tsv[MCLoop + 1][year + 1][ii][j]
                                  ELSE 0)]]
               IN  /\ boatBound' = (boatBound \/ \E ii \in 1..NSt : Ts[ii][j] > 0)
                   /\ ts' = tsv
                   /\ IF NSt > NC
                      THEN \* Q[i][j] with a state index beyond Q's rows
                           Raise /\ UNCHANGED <<Q, j>>
                      ELSE /\ Q' = Decontaminate(Q2)
                           /\ j' = j + 1
                           /\ UNCHANGED <<pc, result>>
    /\ UNCHANGED <<inputVars, run, firstRun, origVars, sites, c, cs, A, As, T, Ts, P, t, O, Os, W,
                   avgInfest, infestedTrials, MCLoop, year, i, canceled, routeSink>>

\* int(sum(Q)[j]): the builtin sum adds the rows of Q
Arrivals(jj) == SumTo([ii \in 1..NC |-> Q[ii][jj]], NC)

SettleWeight_noRisk(site) == RMul(Num(2), site.habitability[1])

\* lines 705-706: the weight of outcome 1 of the settlement draw
SettleWeight(site) ==
    RMul(params.settleRisk, RMul(Num(2), site.habitability[1]))

\* lines 702-707: whether some draw of the boat loop of a site returns 1
SettleOutcomes(site, boats) ==
    IF boats = 0 THEN {FALSE}
    ELSE {n > 0 : n \in Successes(boats, SettleWeight(site))}

Settled_assigned(site, success) == [site EXCEPT !.infested = success]

\* lines 702-708: the site after its boat loop: infest() on a success
Settled(site, success) == IF success THEN infest(site) ELSE site

RunningAverage_halved(avg, loop, site) ==
    RDiv(RAdd(avg, Num(IF site.infested THEN 1 ELSE 0)), Num(2))

\* line 710-711: the running average over the Monte Carlo loops
RunningAverage(avg, loop, site) ==
    RDiv(RAdd(RMul(Num(loop), avg), Num(IF site.infested THEN 1 ELSE 0)),
         Num(loop + 1))

(***************************************************************************)
(* Lines 701-711: one iteration, for site j, of the settlement loop: one   *)
(* draw per arriving boat, infest() on every success, then the running     *)
(* average of the year.  Leaving the loop ends the year.                   *)
(***************************************************************************)
UpdateInfestation ==
    /\ prog = "RouteHeatmap"
    /\ pc = "settle"
    /\ IF j > NS
       THEN /\ year' = year + 1
            /\ pc' = "year"
            /\ UNCHANGED <<sites, avgInfest, infestedTrials, j, boatBound, result,
                           draws>>
       ELSE IF Arrivals(j) > 0 /\ sites[j].habitability = None
       THEN \* 2 * None raises TypeError
            /\ Raise
            /\ boatBound' = TRUE
            /\ UNCHANGED <<sites, avgInfest, infestedTrials, j, year, draws>>
       ELSE \E success \in Drawn("settle",
                                  SettleOutcomes(sites[j], Arrivals(j))) :
            /\ draws' = Consumed("settle", success)
            /\ LET site == Settled(sites[j], success)
               IN  /\ sites' = [sites EXCEPT ![j] = site]
                   /\ avgInfest' = [avgInfest EXCEPT ![year + 1][j] =
                                       RunningAverage(@, MCLoop, site)]
                   /\ infestedTrials' =
                          [infestedTrials EXCEPT ![year + 1][j] =
                              @ + (IF site.infested THEN 1 ELSE 0)]
            /\ boatBound' = (boatBound \/ Arrivals(j) > 0)
            /\ j' = j + 1
            /\ UNCHANGED <<pc, year, result>>
    /\ UNCHANGED <<inputVars, run, firstRun, origVars, c, cs, A, As, T, Ts, P, t, ts, Q, O, Os, W,
                   MCLoop, i, canceled, routeSink>>

\* line 757-758: sum(t) / MCLoops, the average over the Monte Carlo loops
AverageBoats(tv, y, ii, jj) ==
    RDiv(Num(SumTo([l \in 1..params.MCLoops |-> tv[l][y][ii][jj]],
                   params.MCLoops)),
         Num(params.MCLoops))

\* a field definition: its name, and the year n of a 'Year n ...' field
Field(name, n) == <<name, n>>

NoYear == -1

\* list.insert(k, x) for a 0-based index k inside the list
Insert(seq, k, x) ==
    SubSeq(seq, 1, k) \o <<x>> \o SubSeq(seq, k + 1, Len(seq))

RECURSIVE InsertFields(_, _, _, _)
\* lines 733-738: for n in range(years): fList.insert(n + at, field n), from
\* the iteration n on
InsertFields(list, name, at, n) ==
    IF n >= params.years THEN list
    ELSE InsertFields(Insert(list, n + at, Field(name, n)), name, at, n + 1)

\* lines 722-738: the field definitions of the output layer
fList ==
    LET fixed == <<Field("Origin", NoYear), Field("Lake", NoYear),
                   Field("pH", NoYear), Field("Calcium", NoYear),
                   Field("Habitability", NoYear),
                   Field("Attractiveness", NoYear),
                   Field("Initially Infested", NoYear),
                   Field("Origin Infested", NoYear),
                   Field("Origin Type", NoYear)>>
        proportions == InsertFields(fixed, "Infestation Proportion", 7, 0)
    IN  InsertFields(proportions, "Boats on Route", 6, 0)

\* lines 771-783 and 796-808: the positions, in the attribute list, of the
\* boats of year y, of the proportion of year y (both for y from 1) and of
\* the initial-infestation flag
BoatsPosition(y) == 6 + y

ProportionPosition(y) == 6 + params.years + y

InitInfestedPosition == 6 + 2 * params.years + 1

\* avgInfest[j][y] of lines 779 and 804 is inside the array [years][sites]
ProportionIndexOK(jj) == jj <= params.years /\ params.years <= NS

\* lines 771-783 and 796-808: the attribute list of a route feature
Attributes(name, jj, boats, originInfested, originType) ==
    <<name, jj, sites[jj].pH, sites[jj].calcium, sites[jj].habitability,
      sites[jj].attractiveness>>
    \o [y \in 1..params.years |-> boats[y]]
    \o [y \in 1..params.years |-> avgInfest[jj][y]]
    \o <<sites[jj].initInfested, originInfested, originType>>

CountyFeature(ii, jj) ==
    Attributes(<<"county", ii>>, jj,
               [y \in 1..params.years |-> AverageBoats(t, y, ii, jj)],
               None, "internal county")

StateFeature(ii, jj) ==
    Attributes(<<"state", ii>>, jj,
               [y \in 1..params.years |-> AverageBoats(ts, y, ii, jj)],
               Some(states[ii].infested), "external district")

(***************************************************************************)
(* Lines 760-784: the county output loop, one route per step, with a       *)
(* cancellation check before each route.                                   *)
(***************************************************************************)
CountyOutput ==
    /\ prog = "RouteHeatmap"
    /\ pc = "countyOutput"
    /\ IF i > NC
       THEN /\ pc' = "stateOutput"
            /\ i' = 1
            /\ UNCHANGED <<j, routeSink, result>>
       ELSE IF isCanceled
       THEN ReturnCancelled /\ UNCHANGED <<i, j, routeSink>>
       ELSE IF ~ProportionIndexOK(j)
       THEN Raise /\ UNCHANGED <<i, j, routeSink>>
       ELSE /\ routeSink' = Append(routeSink, CountyFeature(i, j))
            /\ IF j < NS
               THEN j' = j + 1 /\ UNCHANGED i
               ELSE j' = 1 /\ i' = i + 1
            /\ UNCHANGED <<pc, result>>
    /\ UNCHANGED <<inputVars, replayVars, origVars, sites, arrayVars, infestedTrials, MCLoop, year, boatBound,
                   canceled>>

(***************************************************************************)
(* Lines 785-837: the state output loop, one state per step, with a        *)
(* cancellation check before each state; after the last state the sink is  *)
(* flushed and the layer is returned.                                      *)
(***************************************************************************)
StateOutput ==
    /\ prog = "RouteHeatmap"
    /\ pc = "stateOutput"
    /\ IF i > NSt
       THEN /\ pc' = "done"
            /\ result' = "layer"
            /\ UNCHANGED <<i, routeSink>>
       ELSE IF isCanceled
       THEN ReturnCancelled /\ UNCHANGED <<i, routeSink>>
       ELSE LET n == IF params.years > NS THEN 0
                     ELSE IF NS > params.years THEN params.years ELSE NS
            IN  /\ routeSink' = routeSink \o [jj \in 1..n |-> StateFeature(i, jj)]
                /\ IF n < NS
                   THEN Raise /\ UNCHANGED i
                   ELSE i' = i + 1 /\ UNCHANGED <<pc, result>>
    /\ UNCHANGED <<inputVars, replayVars, origVars, sites, arrayVars, infestedTrials, MCLoop, year, j, boatBound,
                   canceled>>

(***************************************************************************)
(* The user presses Cancel while the algorithm runs.                       *)
(***************************************************************************)
Cancel ==
    /\ prog = "RouteHeatmap"
    /\ Running
    /\ ~canceled
    /\ canceled' = TRUE
    /\ UNCHANGED <<inputVars, replayVars, origVars, sites, arrayVars, infestedTrials, MCLoop, year, i, j, boatBound,
                   routeSink, result, pc>>

(***************************************************************************)
(* musselSim_original.py: the command-line program the plugin grew from.   *)
(***************************************************************************)
\* module constants (musselSim_original.py 38-43)
lowCalc == Num(28)

lowpH == Rat(74, 10)

settleRisk == Rat(2, 100)

iterations_per_yr == 8

\* Site.initInfest (musselSim_original.py 138-140)
initInfest(site) ==
    IF RLess(Num(0), site.habitability[1])
    THEN [site EXCEPT !.initInfested = TRUE]
    ELSE site

\* lines 233-253: one data line read into its site.  The properties pHDate
\* and calciumDate are built with @pH.setter and @calcium.setter (lines
\* 86-88, 102-104), so reading them returns the pH or the calcium value;
\* comparing the date string with it raises TypeError and the except branch
\* (lines 246-252) stores the line's value whatever its date.
ReadLine(site, line) ==
    [site EXCEPT !.calcium = IF line.param = "Calcium" THEN line.value ELSE @,
                 !.pH = IF line.param = "pH" THEN line.value ELSE @,
                 !.attractiveness = line.attractiveness]

RECURSIVE ReadLines(_, _, _)
\* lines 226-253: the second pass over the file, from line k on
ReadLines(dict, lines, k) ==
    IF k > Len(lines) THEN dict
    ELSE ReadLines([dict EXCEPT ![lines[k].name] = ReadLine(@, lines[k])],
                   lines, k + 1)

\* habitability (musselSim_original.py 307-352) raises ValueError
musselSim_habitabilityRaises(site) ==
    \/ site.calcium # None /\ CaFactor(site.calcium[1], lowCalc) = None
    \/ site.pH # None /\ pHFactor(site.pH[1], lowpH) = None

\* habitability (musselSim_original.py 307-352) when it returns
musselSim_habitability(site) ==
    IF site.pH = None /\ site.calcium = None THEN None
    ELSE IF site.pH = None THEN CaFactor(site.calcium[1], lowCalc)
    ELSE IF site.calcium = None THEN pHFactor(site.pH[1], lowpH)
    ELSE Some(RMul(pHFactor(site.pH[1], lowpH)[1],
                   CaFactor(site.calcium[1], lowCalc)[1]))

\* the number of sites named in the file (names are 1, 2, ... in the order
\* of their first line)
NamesIn(lines) == Cardinality({lines[k].name : k \in 1..Len(lines)})

MCLimit == 50

yearlimit == 100

\* the assert of each prompt (musselSim_original.py 391, 403, 415)
Accepted(name, value) ==
    CASE name = "MCLoops" -> 1 <= value /\ value <= MCLimit
      [] name = "years" -> 1 <= value /\ value <= yearlimit
      [] name = "percent_cleaned" -> 0 <= value /\ value <= 100

\* the prompts in the order the program asks them
PromptOrder == <<"MCLoops", "years", "percent_cleaned">>

\* what the user answers when a prompt asks again
Retyped(name) ==
    CASE name = "MCLoops" -> {0, 1}
      [] name = "years" -> {0, 1}
      [] name = "percent_cleaned" -> {-1, 0}

(***************************************************************************)
(* musselSim_original.py 386-420: the three prompts.  params holds the     *)
(* integers the user answers; a prompt whose assert fails prints its rule  *)
(* and asks again, and the program goes on once every answer is accepted.  *)
(* (An answer that is no integer is asked again in the same way.)          *)
(***************************************************************************)
Prompts ==
    /\ prog = "musselSim"
    /\ pc = "prompts"
    /\ LET refused == {k \in 1..Len(PromptOrder) :
                          ~Accepted(PromptOrder[k], params[PromptOrder[k]])}
       IN  IF refused = {}
           THEN pc' = "makeSites" /\ UNCHANGED params
           ELSE LET k == CHOOSE k \in refused : \A l \in refused : k <= l
                IN  /\ \E v \in Retyped(PromptOrder[k]) :
                          params' = [params EXCEPT ![PromptOrder[k]] = v]
                    /\ UNCHANGED pc
    /\ UNCHANGED <<prog, inFile, counties, states, routeMatrix, stRouteMatrix,
                   runs, replayVars, origVars, heatmapVars, sites, c, A, T, P,
                   t, Q, O, W, avgInfest, MCLoop, year, j, result>>

(***************************************************************************)
(* makeSites (musselSim_original.py 206-280): the sites of the file, their *)
(* chemistry and attractiveness, their habitability, the initially         *)
(* infested ones, and the removal of the sites without habitability.       *)
(* The removal list r receives `item`, the Site object left over from the  *)
(* first pass, instead of the name (line 272), and `del sitesDict[name]`   *)
(* with that object raises KeyError.                                       *)
(***************************************************************************)
makeSites ==
    /\ prog = "musselSim"
    /\ pc = "makeSites"
    /\ LET n == NamesIn(inFile)
           read == ReadLines([k \in 1..n |-> [pH |-> None, calcium |-> None,
                                attractiveness |-> 1, initInfested |-> FALSE,
                                habitability |-> Some(Num(0)),
                                infested |-> FALSE]],
                             inFile, 1)
           valueError == \E k \in 1..n : musselSim_habitabilityRaises(read[k])
           flagged(k) == \E l \in 1..Len(inFile) :
                            inFile[l].name = k /\ inFile[l].infested
           omitted == {k \in 1..n : musselSim_habitability(read[k]) = None}
       IN  IF valueError
           THEN Raise /\ UNCHANGED sites
           ELSE IF omitted # {}
           THEN \* initInfest() compares None > 0 (TypeError), or the
                \* removal deletes a key that is not in the dictionary
                Raise /\ UNCHANGED sites
           ELSE /\ sites' = [k \in 1..n |->
                               LET site == [read[k] EXCEPT !.habitability =
                                               musselSim_habitability(read[k])]
                               IN  IF flagged(k) THEN initInfest(site) ELSE site]
                /\ pc' = "arrays"
                /\ UNCHANGED result
    /\ UNCHANGED <<inputVars, replayVars, origVars, heatmapVars, c, A, T, P, t, Q, O, W,
                   avgInfest, MCLoop, year, j>>

(***************************************************************************)
(* musselSim_original.py 436-496: the counties, the arrays, the distances, *)
(* O, W, and the gravity model A and T.                                    *)
(***************************************************************************)
SetUpArrays ==
    /\ prog = "musselSim"
    /\ pc = "arrays"
    /\ LET Ov == [ii \in 1..NC |-> counties[ii].boats]
           Wv == [jj \in 1..NS |-> sites[jj].attractiveness]
           Av == [ii \in 1..NC |-> Balancing(Wv, routeMatrix, ii)]
       IN  /\ c' = routeMatrix
           /\ O' = Ov
           /\ W' = Wv
           /\ P' = zeros1(NC)
           /\ t' = zeros2(NC, NS)
           /\ Q' = zeros1(NS)
           /\ results' = [l \in 1..params.MCLoops |->
                             [y \in 1..params.years |-> zeros1(NS)]]
           /\ A' = Av
           /\ T' = TripMatrix(Av, Ov, Wv, routeMatrix, NC)
           /\ IF Unstorable(Av, Ov, Wv, routeMatrix, NC) # {}
              THEN Raise
              ELSE pc' = "o_trial" /\ UNCHANGED result
    /\ UNCHANGED <<inputVars, replayVars, heatmapVars, sites, iteration, avgInfest,
                   MCLoop, year, j>>

(***************************************************************************)
(* musselSim_original.py 502-508: the head of the Monte Carlo loop; after  *)
(* the last loop the results are exported (lines 557-598).                 *)
(***************************************************************************)
MonteCarloLoop ==
    /\ prog = "musselSim"
    /\ pc = "o_trial"
    /\ IF MCLoop < params.MCLoops
       THEN /\ sites' = [jj \in 1..NS |-> resetInfested(sites[jj])]
            /\ year' = 0
            /\ pc' = "o_year"
            /\ UNCHANGED result
       ELSE /\ pc' = "done"
            /\ result' = "files"
            /\ UNCHANGED <<sites, year>>
    /\ UNCHANGED <<inputVars, replayVars, origVars, heatmapVars, c, A, T, P, t, Q, O, W,
                   avgInfest, MCLoop, j>>

(***************************************************************************)
(* musselSim_original.py 511-515: the head of the year loop.               *)
(***************************************************************************)
MainLoop ==
    /\ prog = "musselSim"
    /\ pc = "o_year"
    /\ IF year >= params.years
       THEN /\ MCLoop' = MCLoop + 1
            /\ pc' = "o_trial"
            /\ UNCHANGED <<P, t, Q, iteration>>
       ELSE /\ P' = zeros1(NC)
            /\ t' = zeros2(NC, NS)
            /\ Q' = zeros1(NS)
            /\ iteration' = 0
            /\ pc' = "o_iteration"
            /\ UNCHANGED MCLoop
    /\ UNCHANGED <<inputVars, replayVars, heatmapVars, results, sites, c, A, T, O, W,
                   avgInfest, year, j, result>>

\* lines 520-525: P[i] after one iteration: the trips to infested sites are
\* added to the P[i] of the iteration before, and the product with the share
\* of boats that are not decontaminated is stored in the integer array
Contaminated(Pv, ii) ==
    Trunc(RMul(Num(Pv[ii] + PotentiallyInfested(ii)),
               RSub(Num(1), Rat(params.percent_cleaned, 100))))

(***************************************************************************)
(* musselSim_original.py 517-536: one intra-year iteration: P, t, Q.       *)
(***************************************************************************)
Iteration ==
    /\ prog = "musselSim"
    /\ pc = "o_iteration"
    /\ IF iteration >= iterations_per_yr
       THEN /\ pc' = "o_settle"
            /\ j' = 1
            /\ UNCHANGED <<P, t, Q, iteration>>
       ELSE LET Pv == [ii \in 1..NC |-> Contaminated(P, ii)]
                tv == [ii \in 1..NC |-> [jj \in 1..NS |->
                          Trips(A, Pv, W, c, ii, jj)]]
            IN  /\ P' = Pv
                /\ t' = tv
                /\ Q' = [jj \in 1..NS |->
                            Q[jj] + SumTo([ii \in 1..NC |-> tv[ii][jj]], NC)]
                /\ iteration' = iteration + 1
                /\ UNCHANGED <<pc, j>>
    /\ UNCHANGED <<inputVars, replayVars, heatmapVars, results, sites, c, A, T, O, W,
                   avgInfest, MCLoop, year, result>>

\* lines 541-542: randint(1, (1/settleRisk) - round(habitability * 5)) == 1,
\* one chance in the upper bound
SettleChance(site) ==
    RDiv(Num(1), RSub(RDiv(Num(1), settleRisk),
                      Num(Round(RMul(site.habitability[1], Num(5))))))

\* lines 540-543: whether some draw of the boat loop of a site returns 1
musselSim_SettleOutcomes(site, boats) ==
    IF boats = 0 THEN {FALSE}
    ELSE {n > 0 : n \in Successes(boats, SettleChance(site))}

(***************************************************************************)
(* musselSim_original.py 539-543: the settlement loop, one site per step.  *)
(***************************************************************************)
UpdateStates ==
    /\ prog = "musselSim"
    /\ pc = "o_settle"
    /\ IF j > NS
       THEN /\ pc' = "o_store"
            /\ UNCHANGED <<sites, j, draws>>
       ELSE \E success \in Drawn("settle",
                                  musselSim_SettleOutcomes(sites[j], Q[j])) :
            /\ draws' = Consumed("settle", success)
            /\ sites' = [sites EXCEPT ![j] = Settled(@, success)]
            /\ j' = j + 1
            /\ UNCHANGED pc
    /\ UNCHANGED <<inputVars, run, firstRun, origVars, heatmapVars, c, A, T, P, t, Q, O, W,
                   avgInfest, MCLoop, year, result>>

\* lines 587-589: the average over the Monte Carlo loops that the
\* site-specific export writes for (year y, site jj)
SiteSpecific(y, jj) ==
    Rat(SumTo([l \in 1..params.MCLoops |-> results[l][y][jj]], params.MCLoops),
        params.MCLoops)

Snapshot_initial(sitesv) ==
    [jj \in 1..Len(sitesv) |-> IF sitesv[jj].initInfested THEN 1 ELSE 0]

\* musselSim_original.py 546-548: the infested flags, stored as integers
Snapshot(sitesv) ==
    [jj \in 1..Len(sitesv) |-> IF sitesv[jj].infested THEN 1 ELSE 0]

(***************************************************************************)
(* musselSim_original.py 546-548: the snapshot of the year.                *)
(***************************************************************************)
StoreResults ==
    /\ prog = "musselSim"
    /\ pc = "o_store"
    /\ results' = [results EXCEPT ![MCLoop + 1][year + 1] = Snapshot(sites)]
    /\ year' = year + 1
    /\ pc' = "o_year"
    /\ UNCHANGED <<inputVars, replayVars, heatmapVars, iteration, sites, c, A, T, P, t, Q,
                   O, W, avgInfest, MCLoop, j, result>>

(***************************************************************************)
(* Inputs: the parameters and the pickled counties, states, sites and      *)
(* routes, drawn from small sets.                                          *)
(***************************************************************************)
MaxLoops == 2

MaxYears == 2

MaxTrips == 2

MaxBoats == 3

MaxW == 2

\* defaults of the parameters LOW_CALC, LOW_PH, SETTLE_RISK (lines 218, 225, 233)
DefaultLowCalc == Num(28)

DefaultLowpH == Rat(74, 10)

DefaultSettleRisk == Rat(2, 100)

\* Site(lat, lon, pH, calcium, attractiveness, initInfested): lines 266-274.
\* _infested does not exist before the first resetInfested(); it is never
\* read before, and is FALSE here until then.
Site(pH, calcium, attractiveness, initInfested) ==
    [pH |-> pH, calcium |-> calcium, attractiveness |-> attractiveness,
     initInfested |-> initInfested, habitability |-> Some(Num(0)),
     infested |-> FALSE]

County(boats) == [boats |-> boats]

State(boats, infested) == [boats |-> boats, infested |-> infested]

pHValues == {None, Some(Num(-1)), Some(Num(7)), Some(Rat(84, 10))}

CalciumValues == {None, Some(Num(-1)), Some(Num(20)), Some(Num(30))}

SettleRisks == {Num(0), DefaultSettleRisk, Rat(1, 2), Num(1)}

Proportions == {Num(0), Rat(1, 2), Num(1)}

\* route lengths: 0 for a route that does not leave its starting point
CostValues == {0, 1, 2}

Clean == Site(None, Some(Num(30)), 1, FALSE)

Infested == Site(None, Some(Num(30)), 1, TRUE)

Costs(n, m, v) == [k \in 1..n |-> [l \in 1..m |-> v]]

BaseParams ==
    [MCLoops |-> 2, years |-> 2, propCleaned |-> Num(0), infProp |-> Num(1),
     uninfProp |-> Num(0), lowCalc |-> DefaultLowCalc, lowpH |-> DefaultLowpH,
     settleRisk |-> DefaultSettleRisk, tripsPerYear |-> 2]

Base ==
    [params |-> BaseParams,
     counties |-> <<County(4), County(2)>>,
     states |-> <<State(0, FALSE), State(0, FALSE)>>,
     sites |-> <<Infested, Clean>>,
     routeMatrix |-> Costs(2, 2, 1),
     stRouteMatrix |-> Costs(2, 2, 1),
     runs |-> 1]

\* every water chemistry, with a clean or an infested neighbour, in both orders
ChemistryInputs ==
    UNION {{[Base EXCEPT !.sites = <<Site(ph, ca, 1, inf), nb>>],
            [Base EXCEPT !.sites = <<nb, Site(ph, ca, 1, inf)>>]} :
           <<ph, ca, inf, nb>> \in pHValues \X CalciumValues \X BOOLEAN
                                   \X {Clean, Infested}}

\* every combination of the numeric parameters
ParameterInputs ==
    {[Base EXCEPT !.params =
         [BaseParams EXCEPT !.MCLoops = l, !.years = y, !.tripsPerYear = n,
                            !.settleRisk = r, !.propCleaned = q]] :
     <<l, y, n, r, q>> \in (1..MaxLoops) \X (1..MaxYears) \X (1..MaxTrips)
                           \X SettleRisks \X Proportions}

\* boats, weights and costs of the gravity model
GravityInputs ==
    {[Base EXCEPT !.counties = <<County(o1), County(o2)>>,
                  !.sites = <<[Infested EXCEPT !.attractiveness = w1],
                              [Clean EXCEPT !.attractiveness = w2]>>,
                  !.routeMatrix = <<<<c1, c2>>, <<1, 1>>>>] :
     <<o1, o2, w1, w2, c1, c2>> \in (0..MaxBoats) \X (0..MaxBoats)
         \X (0..MaxW) \X (0..MaxW) \X CostValues \X CostValues}

\* costs of the routes from other states
StateCostInputs ==
    {[Base EXCEPT !.states = <<State(b, TRUE), State(0, FALSE)>>,
                  !.stRouteMatrix = <<<<c1, c2>>, <<1, 1>>>>] :
     <<b, c1, c2>> \in {0, 2} \X CostValues \X CostValues}

\* one numeric parameter outside the range of its declaration
ConfigurationInputs ==
    {[Base EXCEPT !.params = [BaseParams EXCEPT ![name] = v]] :
     <<name, v>> \in ({"MCLoops"} \X {0, 1001}) \cup ({"years"} \X {0, 51})
         \cup ({"propCleaned", "settleRisk"} \X {Rat(-1, 2), Rat(3, 2)})
         \cup ({"tripsPerYear"} \X {0, 21})}

\* enough boats for several infested arrivals at each of two sites that the
\* counties treat alike, with every share of decontaminated boats
DecontaminationInputs ==
    {[Base EXCEPT !.counties = <<County(8), County(2)>>,
                  !.sites = <<Infested, nb>>,
                  !.params = [BaseParams EXCEPT !.MCLoops = 1, !.years = 1,
                                                !.propCleaned = q]] :
     <<nb, q>> \in {Clean, Infested} \X Proportions}

\* boats arriving from other states
StateInputs ==
    {[Base EXCEPT !.states = <<State(b, f), State(0, FALSE)>>,
                  !.sites = <<Clean, Clean>>,
                  !.params = [BaseParams EXCEPT !.infProp = p, !.uninfProp = q,
                                                !.MCLoops = 1,
                                                !.propCleaned = d]] :
     <<b, f, p, q, d>> \in (0..MaxBoats) \X BOOLEAN \X Proportions
                           \X Proportions \X Proportions}

\* settleRisk 0 with every boat count, weight and cost, and boats of an
\* infested state that are all contaminated
NoRiskInputs ==
    {[Base EXCEPT !.counties = <<County(o1), County(2)>>,
                  !.states = <<State(b, TRUE), State(0, FALSE)>>,
                  !.sites = <<Infested, [Clean EXCEPT !.attractiveness = w2]>>,
                  !.routeMatrix = <<<<c1, 1>>, <<1, 1>>>>,
                  !.params = [BaseParams EXCEPT !.settleRisk = Num(0)]] :
     <<o1, b, w2, c1>> \in (0..MaxBoats + 1) \X (0..MaxBoats) \X (0..MaxW)
                           \X CostValues}

\* ten Monte Carlo loops of one year
TenTrialsInput ==
    [Base EXCEPT !.params = [BaseParams EXCEPT !.MCLoops = 10, !.years = 1]]

\* one Monte Carlo loop, run twice
RepeatInputs ==
    {[Base EXCEPT !.runs = 2,
                  !.states = <<State(b, TRUE), State(0, FALSE)>>,
                  !.params = [BaseParams EXCEPT !.MCLoops = 1, !.infProp = p,
                                                !.settleRisk = r]] :
     <<b, p, r>> \in {0, 2} \X Proportions \X SettleRisks}

\* other numbers of counties, states and sites
ShapeInputs ==
    {[Base EXCEPT !.counties = [k \in 1..nc |-> County(3)],
                  !.states = [k \in 1..ns |-> State(2, TRUE)],
                  !.sites = [k \in 1..nl |-> IF k = 1 THEN Infested ELSE Clean],
                  !.routeMatrix = Costs(nc, nl, 1),
                  !.stRouteMatrix = Costs(ns, nl, 1)] :
     <<nc, ns, nl>> \in {<<1, 2, 2>>, <<2, 0, 2>>, <<2, 1, 2>>, <<2, 3, 2>>,
                         <<3, 2, 2>>, <<2, 2, 1>>, <<2, 2, 3>>}}

\* the scenario of two counties with 1000 and 500 boats, two sites of
\* habitability 1 at equal cost, one of them infested, settleRisk 1, one
\* trip, one year, one Monte Carlo loop, no decontamination
Scenario ==
    [Base EXCEPT !.counties = <<County(1000), County(500)>>,
                 !.sites = <<Site(Some(Num(-1)), Some(Num(-1)), 1, TRUE),
                             Site(Some(Num(-1)), Some(Num(-1)), 1, FALSE)>>,
                 !.routeMatrix = Costs(2, 2, 10),
                 !.params = [BaseParams EXCEPT !.MCLoops = 1, !.years = 1,
                                !.tripsPerYear = 1, !.settleRisk = Num(1),
                                !.propCleaned = Num(0)]]

Inputs ==
    ChemistryInputs \cup ParameterInputs \cup GravityInputs \cup StateInputs
    \cup StateCostInputs \cup ConfigurationInputs \cup DecontaminationInputs
    \cup NoRiskInputs \cup RepeatInputs \cup ShapeInputs
    \cup {Scenario, TenTrialsInput}

\* one data line of the sites file of musselSim_original.py: the columns
\* 1 and 4 to 8 (name, date, parameter, value, attractiveness, infested);
\* a value that float() rejects is None
Line(name, date, param, value, attractiveness, infested) ==
    [name |-> name, date |-> date, param |-> param, value |-> value,
     attractiveness |-> attractiveness, infested |-> infested]

FileValues == {None, Some(Num(-1)), Some(Num(7)), Some(Num(30))}

Percentages == {0, 50, 100}

musselSim_BaseParams == [MCLoops |-> 2, years |-> 2, percent_cleaned |-> 0]

musselSim_Base ==
    [params |-> musselSim_BaseParams,
     counties |-> <<County(3), County(2)>>,
     inFile |-> <<Line(1, 1, "Calcium", Some(Num(30)), 1, TRUE),
                  Line(2, 1, "Calcium", Some(Num(30)), 1, FALSE)>>,
     routeMatrix |-> Costs(2, 2, 1),
     runs |-> 1]

\* two data lines of every parameter, value and date for the second site
musselSim_ChemistryInputs ==
    {[musselSim_Base EXCEPT !.inFile =
         <<Line(1, 1, "Calcium", Some(Num(30)), 1, TRUE),
           Line(2, 2, p1, v1, 1, inf), Line(2, d2, p2, v2, 1, inf)>>] :
     <<p1, v1, d2, p2, v2, inf>> \in {"pH", "Calcium"} \X FileValues \X {1, 3}
         \X {"pH", "Calcium"} \X FileValues \X BOOLEAN}

musselSim_ParameterInputs ==
    {[musselSim_Base EXCEPT !.params = [MCLoops |-> l, years |-> y,
                                        percent_cleaned |-> q]] :
     <<l, y, q>> \in (1..MaxLoops) \X (1..MaxYears) \X Percentages}

musselSim_GravityInputs ==
    {[musselSim_Base EXCEPT
         !.counties = <<County(o1), County(o2)>>,
         !.inFile = <<Line(1, 1, "Calcium", Some(Num(30)), w1, TRUE),
                      Line(2, 1, "Calcium", Some(Num(30)), w2, FALSE)>>,
         !.routeMatrix = <<<<c1, c2>>, <<1, 1>>>>] :
     <<o1, o2, w1, w2, c1, c2>> \in (0..MaxBoats) \X (0..MaxBoats)
         \X (0..MaxW) \X (0..MaxW) \X CostValues \X CostValues}

musselSim_ShapeInputs ==
    {[musselSim_Base EXCEPT
         !.counties = [k \in 1..nc |-> County(3)],
         !.inFile = [k \in 1..nl |->
                        Line(k, 1, "pH", Some(Num(30)), 1, k = 1)],
         !.routeMatrix = Costs(nc, nl, 1)] :
     <<nc, nl>> \in {<<1, 2>>, <<3, 2>>, <<2, 1>>, <<2, 3>>}}

\* one Monte Carlo loop, run twice
musselSim_RepeatInputs ==
    {[musselSim_Base EXCEPT !.runs = 2,
                            !.params = [MCLoops |-> 1, years |-> y,
                                        percent_cleaned |-> q]] :
     <<y, q>> \in (1..MaxYears) \X Percentages}

\* answers below, at and above the limit of each prompt; the sites are
\* infested from the start
musselSim_ConfigurationInputs ==
    {[musselSim_Base EXCEPT
         !.inFile = <<Line(1, 1, "Calcium", Some(Num(30)), 1, TRUE),
                      Line(2, 1, "Calcium", Some(Num(30)), 1, TRUE)>>,
         !.params = [MCLoops |-> l, years |-> y, percent_cleaned |-> q]] :
     <<l, y, q>> \in ({0, 51} \X {1} \X {0}) \cup ({1} \X {0, 51, 101} \X {0})
                     \cup ({1} \X {1} \X {-1, 100, 101})}

musselSim_Inputs ==
    musselSim_ChemistryInputs \cup musselSim_ParameterInputs
    \cup musselSim_GravityInputs \cup musselSim_ShapeInputs
    \cup musselSim_RepeatInputs \cup musselSim_ConfigurationInputs

(***************************************************************************)
(* RouteHeatmap.py 513-518: the objects are built, the parameters read, c  *)
(* and cs allocated; the other arrays are allocated by lines 584-598.      *)
(***************************************************************************)
RouteHeatmapInit ==
    \E inp \in Inputs :
        /\ prog = "RouteHeatmap"
        /\ inFile = <<>>
        /\ results = <<>>
        /\ iteration = 0
        /\ params = inp.params
        /\ counties = inp.counties
        /\ states = inp.states
        /\ sites = inp.sites
        /\ routeMatrix = inp.routeMatrix
        /\ stRouteMatrix = inp.stRouteMatrix
        /\ c = zeros2(Len(inp.counties), Len(inp.sites))
        /\ cs = zeros2(Len(inp.states), Len(inp.sites))
        /\ A = <<>> /\ As = <<>> /\ T = <<>> /\ Ts = <<>> /\ P = <<>>
        /\ t = <<>> /\ ts = <<>> /\ Q = <<>> /\ O = <<>> /\ Os = <<>>
        /\ W = <<>> /\ avgInfest = <<>> /\ infestedTrials = <<>>
        /\ MCLoop = 0 /\ year = 0 /\ i = 1 /\ j = 1
        /\ boatBound = FALSE
        /\ canceled = FALSE
        /\ routeSink = <<>>
        /\ result = "running"
        /\ runs = inp.runs /\ run = 1 /\ draws = <<>> /\ firstRun = <<>>
        /\ pc = "parameters"

(***************************************************************************)
(* musselSim_original.py 356-385: the two files are open; params holds     *)
(* what the user will answer at the prompts.                               *)
(***************************************************************************)
musselSimInit ==
    \E inp \in musselSim_Inputs :
        /\ prog = "musselSim"
        /\ inFile = inp.inFile
        /\ results = <<>>
        /\ iteration = 0
        /\ params = inp.params
        /\ counties = inp.counties
        /\ states = <<>>
        /\ sites = <<>>
        /\ routeMatrix = inp.routeMatrix
        /\ stRouteMatrix = <<>>
        /\ c = <<>> /\ cs = <<>>
        /\ A = <<>> /\ As = <<>> /\ T = <<>> /\ Ts = <<>> /\ P = <<>>
        /\ t = <<>> /\ ts = <<>> /\ Q = <<>> /\ O = <<>> /\ Os = <<>>
        /\ W = <<>> /\ avgInfest = <<>> /\ infestedTrials = <<>>
        /\ MCLoop = 0 /\ year = 0 /\ i = 1 /\ j = 1
        /\ boatBound = FALSE
        /\ canceled = FALSE
        /\ routeSink = <<>>
        /\ result = "running"
        /\ runs = inp.runs /\ run = 1 /\ draws = <<>> /\ firstRun = <<>>
        /\ pc = "prompts"

(***************************************************************************)
(* The program is run a second time on the same inputs, with the random    *)
(* stream of the first run: processAlgorithm (RouteHeatmap.py 248) builds  *)
(* all its objects and arrays anew from the pickled files, and             *)
(* musselSim_original.py is a script that starts from its first line.      *)
(***************************************************************************)
Rerun ==
    /\ runs = 2
    /\ run = 1
    /\ pc = "done"
    /\ params.MCLoops = 1
    /\ run' = 2
    /\ firstRun' = IF prog = "RouteHeatmap" THEN infestedTrials ELSE results[1]
    /\ IF prog = "RouteHeatmap"
       THEN /\ sites' = [jj \in 1..NS |->
                            Site(sites[jj].pH, sites[jj].calcium,
                                 sites[jj].attractiveness,
                                 sites[jj].initInfested)]
            /\ c' = zeros2(NC, NS)
            /\ cs' = zeros2(NSt, NS)
            /\ pc' = "parameters"
       ELSE /\ sites' = <<>>
            /\ c' = <<>>
            /\ cs' = <<>>
            /\ pc' = "prompts"
    /\ results' = <<>>
    /\ iteration' = 0
    /\ A' = <<>> /\ As' = <<>> /\ T' = <<>> /\ Ts' = <<>> /\ P' = <<>>
    /\ t' = <<>> /\ ts' = <<>> /\ Q' = <<>> /\ O' = <<>> /\ Os' = <<>>
    /\ W' = <<>> /\ avgInfest' = <<>> /\ infestedTrials' = <<>>
    /\ MCLoop' = 0 /\ year' = 0 /\ i' = 1 /\ j' = 1
    /\ boatBound' = FALSE
    /\ canceled' = FALSE
    /\ routeSink' = <<>>
    /\ result' = "running"
    /\ UNCHANGED <<inputVars, draws>>

Init == RouteHeatmapInit \/ musselSimInit

Next ==
    \/ checkParameterValues
    \/ Prompts
    \/ CountyRouteLengths
    \/ StateRouteLengths
    \/ SetUpModel
    \/ BeginTrial
    \/ BeginYear
    \/ YearlyBoats
    \/ UpdateInfestation
    \/ CountyOutput
    \/ StateOutput
    \/ Cancel
    \/ makeSites
    \/ SetUpArrays
    \/ MonteCarloLoop
    \/ MainLoop
    \/ Iteration
    \/ UpdateStates
    \/ StoreResults
    \/ Rerun

Spec == Init /\ [][Next]_vars

(***************************************************************************)
(* The habitability functions on their own: the function of                *)
(* RouteHeatmap.py with every pair of thresholds, and the function of      *)
(* musselSim_original.py with the thresholds that program passes, applied  *)
(* to two sites of every water chemistry.                                  *)
(***************************************************************************)
ReadingspH ==
    {None, Some(Num(-1)), Some(Num(0)), Some(Num(7)), Some(Rat(74, 10)),
     Some(Num(8)), Some(Num(9))}

ReadingsCalcium ==
    {None, Some(Num(-1)), Some(Num(0)), Some(Num(20)), Some(Num(28)),
     Some(Num(30)), Some(Num(40))}

ThresholdspH == {DefaultLowpH, Num(8)}

ThresholdsCalcium == {DefaultLowCalc, Num(20)}

HabitabilityInit ==
    /\ prog \in {"RouteHeatmap", "musselSim"}
    /\ \E lp \in ThresholdspH : \E lc \in ThresholdsCalcium :
          params = IF prog = "RouteHeatmap"
                   THEN [BaseParams EXCEPT !.lowpH = lp, !.lowCalc = lc]
                   ELSE musselSim_BaseParams
    /\ \E p1 \in ReadingspH : \E c1 \in ReadingsCalcium :
       \E p2 \in ReadingspH : \E c2 \in ReadingsCalcium :
          sites = <<Site(p1, c1, 1, FALSE), Site(p2, c2, 1, FALSE)>>
    /\ inFile = <<>> /\ results = <<>> /\ iteration = 0
    /\ counties = <<>> /\ states = <<>>
    /\ routeMatrix = <<>> /\ stRouteMatrix = <<>>
    /\ c = <<>> /\ cs = <<>>
    /\ A = <<>> /\ As = <<>> /\ T = <<>> /\ Ts = <<>> /\ P = <<>>
    /\ t = <<>> /\ ts = <<>> /\ Q = <<>> /\ O = <<>> /\ Os = <<>>
    /\ W = <<>> /\ avgInfest = <<>> /\ infestedTrials = <<>>
    /\ MCLoop = 0 /\ year = 0 /\ i = 1 /\ j = 1
    /\ boatBound = FALSE
    /\ canceled = FALSE
    /\ routeSink = <<>>
    /\ result = "running"
    /\ runs = 1 /\ run = 1 /\ draws = <<>> /\ firstRun = <<>>
    /\ pc = "habitability"

\* RouteHeatmap.py 578-580: habitability() called for every site
CallHabitability ==
    /\ prog = "RouteHeatmap"
    /\ pc = "habitability"
    /\ sites' = [jj \in 1..NS |->
                    [sites[jj] EXCEPT !.habitability =
                        habitability(sites[jj].pH, sites[jj].calcium,
                                     params.lowpH, params.lowCalc)]]
    /\ pc' = "returned"
    /\ UNCHANGED <<inputVars, origVars, replayVars, arrayVars, infestedTrials,
                   MCLoop, year, i, j, boatBound, canceled, routeSink, result>>

\* musselSim_original.py 255-257: habitability() called for every site
musselSim_CallHabitability ==
    /\ prog = "musselSim"
    /\ pc = "habitability"
    /\ IF \E jj \in 1..NS : musselSim_habitabilityRaises(sites[jj])
       THEN Raise /\ UNCHANGED sites
       ELSE /\ sites' = [jj \in 1..NS |->
                            [sites[jj] EXCEPT !.habitability =
                                musselSim_habitability(sites[jj])]]
            /\ pc' = "returned"
            /\ UNCHANGED result
    /\ UNCHANGED <<inputVars, origVars, replayVars, arrayVars, infestedTrials,
                   MCLoop, year, i, j, boatBound, canceled, routeSink>>

HabitabilityNext == CallHabitability \/ musselSim_CallHabitability

HabitabilitySpec == HabitabilityInit /\ [][HabitabilityNext]_vars

(***************************************************************************)
(* Properties.                                                             *)
(***************************************************************************)
\* the gravity model has been computed
GravityDone == T # <<>> /\ pc # "error"

\* the settlement of site jj in the current year has been done
SettledThisYear(jj) == pc \in {"settle", "o_settle"} /\ jj < j

\* the head of the Monte Carlo loop, where the sites are reset
AtTrialHead == pc \in {"trial", "o_trial"}

\* the contaminated boats that arrived at site jj in the current year
Arrived(jj) == IF prog = "RouteHeatmap" THEN Arrivals(jj) ELSE Q[jj]

\* the running average of (year y, site jj) has been written in the current
\* or an earlier Monte Carlo loop
Recorded(y, jj) ==
    /\ avgInfest # <<>>
    /\ \/ MCLoop >= 1
       \/ y <= year
       \/ y = year + 1 /\ SettledThisYear(jj)

Indicator(b) == Num(IF b THEN 1 ELSE 0)

\* C1: within one Monte Carlo trial the infested flag of a site never goes
\* from true to false; only the reset at the head of a trial may clear it.
C1_InfestedMonotonic ==
    [][run' = run =>
          \A jj \in 1..NS :
             (sites[jj].infested /\ ~AtTrialHead) => sites'[jj].infested]_vars

\* a site that was clean at the start of the first trial is infested after
\* year 0 and has been through the settlement of year 1
C1_Witness ==
    \E jj \in 1..NS :
        /\ prog = "RouteHeatmap"
        /\ MCLoop = 0 /\ year = 1 /\ SettledThisYear(jj)
        /\ ~sites[jj].initInfested
        /\ avgInfest[1][jj] = Num(1)
        /\ sites[jj].infested

\* C2: at the start of every trial, before any settlement of that trial,
\* every site's infested flag equals its initInfested value.
C2_TrialStartsFromInitial ==
    (/\ year = 0
     /\ \/ pc \in {"year", "boats", "o_year", "o_iteration"}
        \/ pc \in {"settle", "o_settle"} /\ j = 1)
    => \A jj \in 1..NS : sites[jj].infested = sites[jj].initInfested

\* the second trial starts after a first trial that infested a clean site
C2_Witness ==
    /\ prog = "RouteHeatmap"
    /\ MCLoop = 1 /\ pc = "year" /\ year = 0
    /\ \E jj \in 1..NS :
          /\ ~sites[jj].initInfested
          /\ avgInfest[params.years][jj] = Num(1)

\* C3: with settleRisk = 0 every recorded infestation status equals the
\* site's initInfested value, in every trial and year.
C3_NoRiskNoSpread ==
    (prog = "RouteHeatmap" /\ params.settleRisk = Num(0) /\ avgInfest # <<>>)
    => \A y \in 1..params.years : \A jj \in 1..NS :
          Recorded(y, jj) => avgInfest[y][jj] = Indicator(sites[jj].initInfested)

\* with settleRisk = 0, contaminated boats arrived at a clean habitable site
\* and its settlement has been done
C3_Witness ==
    /\ prog = "RouteHeatmap"
    /\ params.settleRisk = Num(0)
    /\ \E jj \in 1..NS :
          /\ SettledThisYear(jj)
          /\ Arrivals(jj) > 0
          /\ ~sites[jj].initInfested
          /\ RLess(Num(0), sites[jj].habitability[1])

\* the scenario: O = [1000, 500], W = [1, 1], both sites of habitability 1,
\* exactly one of them initially infested, every cost 10, settleRisk 1, one
\* trip per year, one year, one trial, no decontamination
IsScenario ==
    /\ prog = "RouteHeatmap"
    /\ GravityDone
    /\ O = <<1000, 500>>
    /\ W = <<1, 1>>
    /\ \A jj \in 1..2 : sites[jj].habitability = Some(Num(1))
    /\ sites[1].initInfested # sites[2].initInfested
    /\ \A ii \in 1..2 : \A jj \in 1..2 : c[ii][jj] = 10
    /\ \A ii \in 1..NSt : Os[ii] = 0
    /\ params.settleRisk = Num(1)
    /\ params.tripsPerYear = 1
    /\ params.years = 1
    /\ params.MCLoops = 1
    /\ params.propCleaned = Num(0)

\* C4: in the scenario the initially clean site is infested at the end of
\* year 1, in every run.
C4_ScenarioInfests ==
    (IsScenario /\ year = 1) => \A jj \in 1..2 : sites[jj].infested

\* C5: for every county i the trip matrix conserves the boats: the sum over
\* the sites j of T[i][j] equals O[i].
C5_BoatsConserved ==
    GravityDone =>
        \A ii \in 1..NC : SumTo([jj \in 1..NS |-> T[ii][jj]], NS) = O[ii]

\* C6: a site with neither a pH nor a calcium value is out of the simulation
\* before the gravity model is evaluated: it adds no mass to any balancing
\* factor and receives no trips.
C6_NoDataExcluded ==
    GravityDone =>
        \A jj \in 1..NS :
            (sites[jj].pH = None /\ sites[jj].calcium = None)
            => /\ W[jj] = 0
               /\ \A ii \in 1..NC : T[ii][jj] = 0

\* C7: a site whose habitability is exactly 0 stays in the simulation set
\* (it keeps its weight in the gravity model) and infest leaves it unchanged:
\* if it is not infested at the start of a trial, no step of that trial makes
\* it infested, whatever boats arrive and whatever settleRisk is.
C7_BarrenNeverInfested ==
    [][\A jj \in 1..NS :
          sites[jj].habitability = Some(Num(0))
          => /\ GravityDone => W[jj] = sites[jj].attractiveness
             /\ (~sites[jj].infested /\ ~AtTrialHead /\ run' = run)
                => ~sites'[jj].infested]_vars

\* contaminated boats arrived at a clean site of habitability 0, each of
\* them with a positive chance to settle, and the site's settlement is done
C7_Witness ==
    \E jj \in 1..NS :
        /\ prog = "musselSim"
        /\ SettledThisYear(jj)
        /\ sites[jj].habitability = Some(Num(0))
        /\ ~sites[jj].initInfested
        /\ Arrived(jj) > 0

\* the trips of every year to site jj, and the boats arrived there, are zero
NoBoatsTo(jj) ==
    IF prog = "RouteHeatmap"
    THEN /\ \A ii \in 1..NC : T[ii][jj] = 0 /\ Q[ii][jj] = 0
         /\ \A ii \in 1..NSt : Ts[ii][jj] = 0
         /\ \A l \in 1..params.MCLoops : \A y \in 1..params.years :
               /\ \A ii \in 1..NC : t[l][y][ii][jj] = 0
               /\ \A ii \in 1..NSt : ts[l][y][ii][jj] = 0
    ELSE /\ \A ii \in 1..NC : T[ii][jj] = 0 /\ t[ii][jj] = 0
         /\ Q[jj] = 0

\* C8: a site j of attractiveness 0 has T[i][j] = 0 for every county i,
\* receives no contaminated boat in any year and, unless initially infested,
\* is not infested in any year of any trial.
C8_UnattractiveUntouched ==
    GravityDone =>
        \A jj \in 1..NS :
            W[jj] = 0
            => /\ NoBoatsTo(jj)
               /\ sites[jj].infested => sites[jj].initInfested

\* a clean habitable site of attractiveness 0 has been through a settlement
\* with settleRisk > 0 while another site received contaminated boats
C8_Witness ==
    \E jj \in 1..NS :
        /\ prog = "RouteHeatmap"
        /\ GravityDone
        /\ W[jj] = 0
        /\ SettledThisYear(jj)
        /\ ~sites[jj].initInfested
        /\ RLess(Num(0), sites[jj].habitability[1])
        /\ RLess(Num(0), params.settleRisk)
        /\ \E kk \in 1..NS : Arrivals(kk) > 0

\* C9: when cancellation has been requested, the check at the head of the
\* year loop ends the run: the step returns without a layer, simulates no
\* year, and nothing runs afterwards.
C9_CancelStopsRun ==
    [][/\ (pc = "year" /\ year < params.years /\ canceled)
          => /\ pc' = "cancelled"
             /\ result' = "none"
             /\ UNCHANGED <<sites, arrayVars, MCLoop, year, routeSink>>
       /\ pc = "cancelled" => UNCHANGED vars]_vars

\* the run was cancelled at the head of a year, in the middle of a trial
C9_Witness ==
    /\ pc = "cancelled"
    /\ result = "none"
    /\ T # <<>>
    /\ MCLoop < params.MCLoops
    /\ year >= 1

\* C10: whenever cancellation is observed at one of the run's checks, no
\* route feature has been added to the output sink.
C10_NoFeatureOnCancel == pc = "cancelled" => routeSink = <<>>

\* C11: after k Monte Carlo trials have completed, the running average of
\* every (year, site) is the number of those k trials that left the site
\* infested after that year, divided by k; the averages musselSim exports
\* after its last trial are the same fraction of its stored results.
C11_AverageIsMean ==
    /\ (prog = "RouteHeatmap" /\ pc = "trial" /\ MCLoop >= 1)
       => \A y \in 1..params.years : \A jj \in 1..NS :
             avgInfest[y][jj] = Rat(infestedTrials[y][jj], MCLoop)
    /\ (prog = "musselSim" /\ pc = "done")
       => \A y \in 1..params.years : \A jj \in 1..NS :
             SiteSpecific(y, jj) =
                Rat(Cardinality({l \in 1..params.MCLoops :
                                    results[l][y][jj] = 1}), params.MCLoops)

\* ten trials have completed, five of them left the clean site infested, and
\* its running average is exactly 1/2
C11_Witness ==
    /\ prog = "RouteHeatmap" /\ pc = "trial" /\ MCLoop = 10
    /\ \E jj \in 1..NS :
          /\ ~sites[jj].initInfested
          /\ infestedTrials[1][jj] = 5
          /\ avgInfest[1][jj] = Rat(1, 2)

\* the infestation proportion of year y in the attributes of a route feature
\* (the fields after the six site fields and the yearly boat counts)
EmittedProportion(feat, y) == feat[6 + params.years + y]

\* C12: for every site j and year y, the infestation proportion of year y
\* that a route feature of site j carries is the running average of
\* (year y, site j), and it lies between 0 and 1.
C12_EmittedProportion ==
    prog = "RouteHeatmap" =>
        \A k \in 1..Len(routeSink) : \A y \in 1..params.years :
            LET feat == routeSink[k]
            IN  /\ EmittedProportion(feat, y) = avgInfest[y][feat[2]]
                /\ RLeq(Num(0), EmittedProportion(feat, y))
                /\ RLeq(EmittedProportion(feat, y), Num(1))

\* the status that the current run recorded for (year y, site jj), as 0 or 1,
\* in a run of one Monte Carlo loop
StatusRecorded(y, jj) ==
    IF prog = "RouteHeatmap" THEN Recorded(y, jj)
    ELSE results # <<>> /\ (MCLoop >= 1 \/ y <= year)

RecordedStatus(y, jj) ==
    IF prog = "RouteHeatmap" THEN infestedTrials[y][jj] ELSE results[1][y][jj]

NoChemistry(site) == site.pH = None /\ site.calcium = None

\* C14: habitability returns None whenever pH and calcium are both absent,
\* for every pair of thresholds; a value it returns belongs to a site with at
\* least one of the two attributes, and lies between 0 and 1.
C14_UndefinedWithoutData ==
    pc = "returned" =>
        \A jj \in 1..NS :
            /\ NoChemistry(sites[jj]) => sites[jj].habitability = None
            /\ sites[jj].habitability # None
               => /\ ~NoChemistry(sites[jj])
                  /\ RLeq(Num(0), sites[jj].habitability[1])
                  /\ RLeq(sites[jj].habitability[1], Num(1))

\* with thresholds other than the defaults, the function returned None for a
\* site without chemistry and a positive value for a site with both values
C14_Witness ==
    /\ pc = "returned"
    /\ prog = "RouteHeatmap"
    /\ params.lowpH # DefaultLowpH /\ params.lowCalc # DefaultLowCalc
    /\ NoChemistry(sites[1]) /\ sites[1].habitability = None
    /\ sites[2].pH # None /\ sites[2].calcium # None
    /\ sites[2].habitability # None
    /\ RLess(Num(0), sites[2].habitability[1])

\* the thresholds the habitability function was called with
LowCalcUsed == IF prog = "RouteHeatmap" THEN params.lowCalc ELSE lowCalc

LowpHUsed == IF prog = "RouteHeatmap" THEN params.lowpH ELSE lowpH

OnlyCalcium(site) == site.pH = None /\ site.calcium # None

OnlypH(site) == site.calcium = None /\ site.pH # None

\* C15: with one attribute known, habitability is exactly 0 for every
\* non-negative value at or below the threshold of that attribute, and of two
\* values at or above the threshold the larger never gets the smaller factor.
C15_ZeroBelowThenMonotone ==
    pc = "returned" =>
        /\ \A jj \in 1..NS :
              /\ (/\ OnlyCalcium(sites[jj])
                  /\ RLeq(Num(0), sites[jj].calcium[1])
                  /\ RLeq(sites[jj].calcium[1], LowCalcUsed))
                 => sites[jj].habitability = Some(Num(0))
              /\ (/\ OnlypH(sites[jj])
                  /\ RLeq(Num(0), sites[jj].pH[1])
                  /\ RLeq(sites[jj].pH[1], LowpHUsed))
                 => sites[jj].habitability = Some(Num(0))
        /\ \A jj \in 1..NS : \A kk \in 1..NS :
              /\ (/\ OnlyCalcium(sites[jj]) /\ OnlyCalcium(sites[kk])
                  /\ RLeq(LowCalcUsed, sites[jj].calcium[1])
                  /\ RLeq(sites[jj].calcium[1], sites[kk].calcium[1]))
                 => /\ sites[jj].habitability # None
                    /\ sites[kk].habitability # None
                    /\ RLeq(sites[jj].habitability[1],
                            sites[kk].habitability[1])
              /\ (/\ OnlypH(sites[jj]) /\ OnlypH(sites[kk])
                  /\ RLeq(LowpHUsed, sites[jj].pH[1])
                  /\ RLeq(sites[jj].pH[1], sites[kk].pH[1]))
                 => /\ sites[jj].habitability # None
                    /\ sites[kk].habitability # None
                    /\ RLeq(sites[jj].habitability[1],
                            sites[kk].habitability[1])

\* of two sites with calcium only, one exactly at the threshold got 0 and
\* one above it got more
C15_Witness ==
    /\ pc = "returned"
    /\ OnlyCalcium(sites[1]) /\ OnlyCalcium(sites[2])
    /\ sites[1].calcium[1] = LowCalcUsed
    /\ sites[1].habitability = Some(Num(0))
    /\ RLess(LowCalcUsed, sites[2].calcium[1])
    /\ RLess(Num(0), sites[2].habitability[1])

\* the site has exactly one chemical attribute and its value is negative
SingleNegative(site) ==
    \/ OnlyCalcium(site) /\ RLess(site.calcium[1], Num(0))
    \/ OnlypH(site) /\ RLess(site.pH[1], Num(0))

\* C16: once habitability has been called for a site whose only chemical
\* attribute is negative, the call has failed with an error: it has returned
\* neither a value nor None.
C16_NegativeSingleFails ==
    (pc # "habitability" /\ \E jj \in 1..NS : SingleNegative(sites[jj]))
        => pc = "error" /\ result = "exception"

BothPresent(site) == site.pH # None /\ site.calcium # None

\* a single-attribute factor, or 1 where the attribute is out of range
FactorOrOne(factor) == IF factor = None THEN Num(1) ELSE factor[1]

\* C17: where both attributes of a site are present (and no other site has a
\* negative single attribute), the call returns, and the habitability of the
\* site is the product of its two factors with 1 for a negative attribute.
C17_ProductToleratesNegative ==
    (/\ pc # "habitability"
     /\ \E jj \in 1..NS : BothPresent(sites[jj])
     /\ \A jj \in 1..NS : ~SingleNegative(sites[jj]))
        => /\ pc = "returned"
           /\ \A jj \in 1..NS :
                 BothPresent(sites[jj]) =>
                     sites[jj].habitability =
                         Some(RMul(FactorOrOne(pHFactor(sites[jj].pH[1],
                                                        LowpHUsed)),
                                   FactorOrOne(CaFactor(sites[jj].calcium[1],
                                                        LowCalcUsed))))

\* some cost of the matrix is not positive
BadCost(cv) == \E ii \in 1..Len(cv) : \E jj \in 1..Len(cv[ii]) : cv[ii][jj] <= 0

\* there is an origin, and every destination has the weight 0
NoMass(n) == n > 0 /\ \A jj \in 1..NS : sites[jj].attractiveness = 0

\* the input of the gravity distribution is degenerate
DegenerateInput ==
    \/ BadCost(routeMatrix) \/ NoMass(NC)
    \/ prog = "RouteHeatmap" /\ (BadCost(stRouteMatrix) \/ NoMass(NSt))

SimulationStarted ==
    pc \notin {"parameters", "prompts"} /\ result # "invalid parameters"

\* the fraction of decontaminated boats and the settle risk the run uses
DecontaminationFraction ==
    IF prog = "RouteHeatmap" THEN params.propCleaned
    ELSE Rat(params.percent_cleaned, 100)

SettleRiskUsed == IF prog = "RouteHeatmap" THEN params.settleRisk ELSE settleRisk

InUnitInterval(x) == RLeq(Num(0), x) /\ RLeq(x, Num(1))

\* C19: the simulation starts only with a configuration inside the
\* documented ranges: settle risk and decontamination fraction in [0, 1],
\* 1 to 50 years and 1 to 1000 Monte Carlo trials.
C19_ConfigurationInRange ==
    SimulationStarted =>
        /\ InUnitInterval(SettleRiskUsed)
        /\ InUnitInterval(DecontaminationFraction)
        /\ params.years \in 1..50
        /\ params.MCLoops \in 1..1000

Negative(v) == v # None /\ RLess(v[1], Num(0))

\* the input holds a destination with a negative pH or calcium reading: a
\* site object of RouteHeatmap.py, or a site of the file of
\* musselSim_original.py all of whose readings are negative
BadReadingInput ==
    IF prog = "RouteHeatmap"
    THEN \E jj \in 1..NS : Negative(sites[jj].pH) \/ Negative(sites[jj].calcium)
    ELSE \E k \in 1..NamesIn(inFile) :
            /\ \E l \in 1..Len(inFile) : inFile[l].name = k /\ Negative(inFile[l].value)
            /\ \A l \in 1..Len(inFile) :
                  (inFile[l].name = k /\ inFile[l].value # None)
                      => Negative(inFile[l].value)

\* C20: a run whose input holds a destination with a negative reading is not
\* aborted by an exception, and its gravity model and trials are run without
\* that destination.
C20_BadReadingExcluded ==
    BadReadingInput =>
        /\ ~(pc = "error" /\ result = "exception")
        /\ GravityDone =>
              \A jj \in 1..NS :
                  ~Negative(sites[jj].pH) /\ ~Negative(sites[jj].calcium)

\* P has just been computed for an iteration, and no site has changed since
IterationComputed ==
    \/ prog = "RouteHeatmap" /\ pc = "boats"
    \/ prog = "musselSim" /\ pc = "o_iteration" /\ iteration > 0

\* C21: after every intra-year iteration P[i] is (1 - decontamination
\* fraction) times the trips of origin i to the sites infested at that moment
\* (as stored in the integer array), whatever P[i] was before, and it does
\* not exceed O[i].
C21_RiskBoatsComputedAfresh ==
    IterationComputed =>
        \A ii \in 1..NC :
            /\ P[ii] = Trunc(RMul(RSub(Num(1), DecontaminationFraction),
                                  Num(PotentiallyInfested(ii))))
            /\ P[ii] <= O[ii]

\* the infested boats that all origins send to site jj in one iteration
Flow(tv, jj) == SumTo([ii \in 1..NC |-> tv[ii][jj]], NC)

\* the arrivals of site jj that the settlement loop uses
ArrivalsAt(jj) == IF prog = "RouteHeatmap" THEN Arrivals(jj) ELSE Q[jj]

\* no boat comes from another state and no boat is decontaminated
CountyFlowsOnly ==
    /\ params.propCleaned = Num(0)
    /\ \A ii \in 1..NSt : \A jj \in 1..NS : Ts[ii][jj] = 0

\* C22: Q is reset to 0 at the start of a year and grows in every
\* iteration by the flow of that iteration from all origins, so that at the
\* end of the year it is the sum of the flows of all iterations; where every
\* iteration of the year has the same flow t (RouteHeatmap.py, without boats
\* of other states and without decontamination) this is tripsPerYear times
\* that flow, and one flow for tripsPerYear = 1.
C22_ArrivalsSumFlows ==
    [][/\ (prog = "musselSim" /\ pc = "o_year" /\ pc' = "o_iteration")
              => \A jj \in 1..NS : Q'[jj] = 0
       /\ (prog = "musselSim" /\ pc = "o_iteration" /\ iteration' # iteration)
              => \A jj \in 1..NS : Q'[jj] = Q[jj] + Flow(t', jj)
       /\ (prog = "musselSim" /\ pc \in {"o_settle", "o_store"}) => Q' = Q
       /\ (prog = "RouteHeatmap" /\ pc = "boats" /\ pc' = "settle"
               /\ CountyFlowsOnly)
              => \A jj \in 1..NS :
                    ArrivalsAt(jj)' =
                        params.tripsPerYear * Flow(t[MCLoop + 1][year + 1], jj)
      ]_vars

\* the settlement loop is at site j, for which it makes at least one draw
DrawingFor ==
    /\ pc \in {"settle", "o_settle"}
    /\ j <= NS
    /\ ArrivalsAt(j) > 0
    /\ sites[j].habitability # None

\* the weight (probability) of the success outcome of the draw for a site
SuccessWeight(site) ==
    IF prog = "RouteHeatmap" THEN SettleWeight(site) ELSE SettleChance(site)

Clamped(x) == IF RLess(x, Num(0)) THEN Num(0)
              ELSE IF RLess(Num(1), x) THEN Num(1) ELSE x

\* C23: where a settlement draw is made for site j, its success weight is
\* settleRisk * habitability[j] clamped to [0, 1], and that weight and one
\* minus it both lie in [0, 1].
C23_SettleProbability ==
    DrawingFor =>
        /\ SuccessWeight(sites[j]) =
               Clamped(RMul(SettleRiskUsed, sites[j].habitability[1]))
        /\ InUnitInterval(SuccessWeight(sites[j]))
        /\ InUnitInterval(RSub(Num(1), SuccessWeight(sites[j])))

\* x >= 0 rounded to the nearest integer, a half rounded up
RoundHalfUp(x) == (2 * x[1] + x[2]) \div (2 * x[2])

\* the expected infested arrivals of the year at the last site, as lines
\* 670-698 define them, with no rounding and no truncation: the county
\* flows A[i] * P[i] * W[j] * c[i][j] ** -alpha, tripsPerYear - 1 times, and
\* the contaminated boats of the states, less the decontaminated share
ExpectedArrivals(tsv) ==
    RMul(RSub(Num(1), params.propCleaned),
         RAdd(RMul(Num(params.tripsPerYear - 1),
                   RSumTo([ii \in 1..NC |-> TripsValue(A, P, W, c, ii, NS)], NC)),
              Num(SumTo([ii \in 1..NSt |-> tsv[MCLoop + 1][year + 1][ii][NS]],
                        NSt))))

\* C24: the number of settlement draws for the site whose arrivals have just
\* been completed (the last one) is the expected arrivals of the year rounded
\* half-up, not a truncated or otherwise rounded value.
C24_DrawsRoundedHalfUp ==
    [][(prog = "RouteHeatmap" /\ pc = "boats" /\ j = NS /\ j' = j + 1)
           => Arrivals(NS)' = RoundHalfUp(ExpectedArrivals(ts'))]_vars

\* the step that records the year: the store of musselSim_original.py, and
\* the step of RouteHeatmap.py that leaves the settlement loop, in which
\* every site was recorded right after its own draws
SnapshotStep ==
    \/ prog = "musselSim" /\ pc = "o_store"
    \/ prog = "RouteHeatmap" /\ pc = "settle" /\ j > NS

\* C25: the year counter advances only by the step that records the year,
\* by one, once per year of a trial; what is recorded is the infested flag
\* each site has after the settlement of that year; the trial counter
\* advances only after the last year; and a run that ends uncancelled has
\* gone through all monteCarloTrials * years records.
C25_OneSnapshotPerYear ==
    [][run' = run =>
        /\ year' # year
              => \/ SnapshotStep /\ year' = year + 1 /\ year < params.years
                 \/ AtTrialHead /\ year' = 0
        /\ (SnapshotStep /\ pc' # pc) => year' = year + 1 /\ sites' = sites
        /\ (prog = "musselSim" /\ pc = "o_store")
              => \A jj \in 1..NS :
                    Num(results'[MCLoop + 1][year + 1][jj]) =
                        Indicator(sites[jj].infested)
        /\ (prog = "RouteHeatmap" /\ pc = "settle" /\ j' = j + 1)
              => /\ RMul(avgInfest'[year + 1][j], Num(MCLoop + 1)) =
                        RAdd(RMul(avgInfest[year + 1][j], Num(MCLoop)),
                             Indicator(sites'[j].infested))
                 /\ \A jj \in 1..NS : jj < j => sites'[jj] = sites[jj]
        /\ MCLoop' # MCLoop
              => MCLoop' = MCLoop + 1 /\ year = params.years
        /\ pc' = "done"
              => MCLoop' = params.MCLoops /\ year' = params.years
      ]_vars

\* a run of two trials of two years has ended, with a site that the second
\* year of the second trial left infested
C25_Witness ==
    /\ pc = "done"
    /\ params.MCLoops = 2 /\ params.years = 2
    /\ MCLoop = 2 /\ year = 2
    /\ prog = "musselSim"
    /\ \E jj \in 1..NS :
          /\ ~sites[jj].initInfested
          /\ sites[jj].infested
          /\ results[2][2][jj] = 1
          /\ results[2][1][jj] = 0

\* the program is inside its Monte Carlo loop
InMonteCarloLoop ==
    pc \in {"trial", "year", "boats", "settle",
            "o_trial", "o_year", "o_iteration", "o_settle", "o_store"}

\* C26: no step of the Monte Carlo loop changes the cost matrices, the
\* weights, the boat counts, the balancing factors, the trip matrices or the
\* habitability of a site.
C26_GravityModelConstant ==
    [][(InMonteCarloLoop /\ run' = run)
           => /\ UNCHANGED <<c, cs, W, O, Os, A, As, T, Ts>>
              /\ \A jj \in 1..NS :
                    sites'[jj].habitability = sites[jj].habitability]_vars

\* the second year of the second trial has been settled and has infested a
\* site, with trips in the trip matrix
C26_Witness ==
    /\ pc \in {"settle", "o_store"}
    /\ MCLoop = 1 /\ year = 1
    /\ \E ii \in 1..NC : \E jj \in 1..NS : T[ii][jj] > 0
    /\ \E jj \in 1..NS : sites[jj].infested /\ ~sites[jj].initInfested

\* the lines of the sites file that are records of the parameter for site k
RecordsOf(k, param) ==
    {l \in 1..Len(inFile) : inFile[l].name = k /\ inFile[l].param = param}

\* the record with the greatest date, the first one when dates tie
Latest(records) ==
    CHOOSE l \in records :
        \A m \in records :
            \/ inFile[m].date < inFile[l].date
            \/ inFile[m].date = inFile[l].date /\ l <= m

StoredValue(site, param) == IF param = "pH" THEN site.pH ELSE site.calcium

\* C27: once the records of the sites file have been ingested, the pH (the
\* calcium) stored for a site is the value of its pH (calcium) record with
\* the greatest date, the first such record when dates tie.
C27_LatestRecordStored ==
    (prog = "musselSim" /\ sites # <<>>) =>
        \A k \in 1..NS : \A param \in {"pH", "Calcium"} :
            (/\ RecordsOf(k, param) # {}
             /\ \A l \in RecordsOf(k, param) : inFile[l].value # None)
                => StoredValue(sites[k], param) =
                       inFile[Latest(RecordsOf(k, param))].value

\* two sites that every origin treats alike: the same weight and costs, and
\* no boats of other states, whose contamination is drawn at random
AlikeForOrigins(jj, kk) ==
    /\ W[jj] = W[kk]
    /\ \A ii \in 1..NC : c[ii][jj] = c[ii][kk]
    /\ prog = "RouteHeatmap"
          => \A ii \in 1..NSt : Ts[ii][jj] = 0 /\ Ts[ii][kk] = 0

\* the arrivals of the year are complete and no site has been settled yet
ArrivalsComplete == pc \in {"settle", "o_settle"} /\ j = 1

\* C28: decontamination scales the arrivals of every site the same number
\* of times: two sites with the same flows from every origin have the same
\* arrivals, whatever their positions among the sites.
C28_DecontaminationUniform ==
    ArrivalsComplete =>
        \A jj \in 1..NS : \A kk \in 1..NS :
            AlikeForOrigins(jj, kk) => ArrivalsAt(jj) = ArrivalsAt(kk)

\* C29: every feature of the output has as many attribute values as there
\* are field definitions, and the boats of each year, the proportion of each
\* year and the initial-infestation flag sit at the positions of the fields
\* 'Year n Boats on Route', 'Year n Infestation Proportion' and
\* 'Initially Infested'.
C29_AttributesMatchFields ==
    routeSink # <<>> =>
        /\ \A f \in 1..Len(routeSink) : Len(routeSink[f]) = Len(fList)
        /\ \A y \in 1..params.years :
              /\ fList[BoatsPosition(y)] = Field("Boats on Route", y - 1)
              /\ fList[ProportionPosition(y)] =
                     Field("Infestation Proportion", y - 1)
        /\ fList[InitInfestedPosition] = Field("Initially Infested", NoYear)

\* the fraction of the trials that left site jj infested after year y, as
\* the run holds it once complete
AggregatedFraction(y, jj) ==
    IF prog = "RouteHeatmap" THEN avgInfest[y][jj] ELSE SiteSpecific(y, jj)

\* C30: after a completed run the aggregated infestation fraction of every
\* site is non-decreasing in the year, and it is 1 in every year for a site
\* that is initially infested.
C30_FractionMonotoneInYear ==
    pc = "done" =>
        \A jj \in 1..NS :
            /\ \A y \in 1..(params.years - 1) :
                  RLeq(AggregatedFraction(y, jj), AggregatedFraction(y + 1, jj))
            /\ sites[jj].initInfested
                  => \A y \in 1..params.years :
                        AggregatedFraction(y, jj) = Num(1)

\* a completed run of two years whose clean site was infested in more trials
\* after the second year than after the first, next to an initially infested
\* site
C30_Witness ==
    /\ pc = "done" /\ params.years = 2
    /\ \E jj \in 1..NS : \E kk \in 1..NS :
          /\ sites[kk].initInfested
          /\ AggregatedFraction(1, kk) = Num(1)
          /\ ~sites[jj].initInfested
          /\ RLess(AggregatedFraction(1, jj), AggregatedFraction(2, jj))

=============================================================================
